---------------------------- MODULE Spec2Model ----------------------------
(***************************************************************************)
(* A model of src/app.py: the "N-sai kara no" (from age N) book dashboard. *)
(*                                                                         *)
(* Text is modelled as a sequence of symbols.  One symbol is one character *)
(* of the Python string, with two exceptions that keep the alphabet small: *)
(*   SUF   stands for the four-character literal "sai-kara-no" that both   *)
(*         regular expressions end with (no other symbol of the alphabet   *)
(*         contains any of its characters, so a literal match of the four  *)
(*         characters is a match of the one symbol);                       *)
(*   LONG1 stands for a run of IntMaxStrDigits + 1 characters "1" (a run-  *)
(*         length encoding, so that a digit token longer than CPython's    *)
(*         integer string conversion limit fits in a short sequence).      *)
(* An optional value (Python None or a value) is the sequence <<>> or <<v>>.*)
(***************************************************************************)
EXTENDS Integers, Sequences, FiniteSets, TLC

\* ---------------------------------------------------------------- bounds
MaxTitleLen == 4
MaxDateLen == 5
MaxBatchLen == 4
MaxNotesLen == 3
MaxRows == 2

\* ------------------------------------------------------ program constants
\* CPython's default limit on int(str) (sys.int_info.default_max_str_digits),
\* which decides whether int(match.group(1)) raises ValueError.
IntMaxStrDigits == 4300

VARIABLES
    kanjiStrict,     \* the installed kanjize build rejects ill-formed numerals
    title,           \* argument of is_kara_pattern / extract_age (optional text)
    matched,         \* result of is_kara_pattern(title), <<>> before the call
    age,             \* result of extract_age(title), <<>> before the call
    publish_date,    \* argument of extract_decade (optional text)
    decade,          \* result of extract_decade(publish_date), <<>> before the call
    df_with_age,     \* argument of aggregate_statistics: the column taishou-nenrei
    stats,           \* result of aggregate_statistics, <<>> before the call
    writing_style,   \* argument of generate_article_with_gemini
    user_insights,   \* argument of generate_article_with_gemini
    api_key,         \* whether an API key is found in the secrets or the environment
    gemini,          \* what model.generate_content / response.text will do
    generated,       \* result of generate_article_with_gemini, <<>> before the call
    has_title,       \* the sheet has the title column
    rows,            \* the titles of the sheet's rows, as load_data returns them
    session_state,   \* st.session_state
    last             \* what the last run of the script did

vars == <<kanjiStrict, title, matched, age, publish_date, decade, df_with_age, stats,
          writing_style, user_insights, api_key, gemini, generated,
          has_title, rows, session_state, last>>
extractVars == <<kanjiStrict, title, matched, age>>
decadeVars == <<publish_date, decade>>
aggVars == <<df_with_age, stats>>
genVars == <<writing_style, user_insights, api_key, gemini, generated>>
appVars == <<has_title, rows, session_state, last>>

\* ------------------------------------------------------------- utilities
None == <<>>
Some(v) == <<v>>

Min(S) == CHOOSE x \in S : \A y \in S : x <= y
Max(S) == CHOOSE x \in S : \A y \in S : x >= y

SeqsUpTo(S, n) == UNION {[1..k -> S] : k \in 0..n}

\* The result of a call that may raise: ok = FALSE is a raised exception.
Ret(v) == [ok |-> TRUE, v |-> v]
Raised == [ok |-> FALSE, v |-> 0]

\* ---------------------------------------------------------------- text
SUF == "SUF"
LONG1 == "LONG1"
\* \d matches every Unicode decimal digit: "1" is ASCII, "F3" is full-width 3.
Digits == {"1", "F3", LONG1}
\* The character class [ichi ni san ... kyu ju hyaku]; K3 is san, K10 ju, K100 hyaku.
KanjiDigits == {"K3"}
KanjiPlaces == {"K10", "K100"}
KanjiChars == KanjiDigits \cup KanjiPlaces
TitleAlphabet == Digits \cup KanjiChars \cup {SUF, "x"}

\* (The value of a LONG1 run is never asked for: int raises first.)
DigitValue(c) == CASE c = "1" -> 1 [] c = "F3" -> 3 [] OTHER -> 1
KanjiValue(c) == CASE c = "K3" -> 3 [] c = "K10" -> 10 [] c = "K100" -> 100 [] OTHER -> 0
\* Characters of the Python string one symbol stands for.
RunLen(c) == IF c = LONG1 THEN IntMaxStrDigits + 1 ELSE 1

RECURSIVE CharCount(_)
CharCount(s) == IF s = <<>> THEN 0 ELSE RunLen(Head(s)) + CharCount(Tail(s))

\* ------------------------------------------------------------ re.search
\* The patterns are C+ SUF for a character class C.  The greedy C+ takes the
\* whole run of C that starts at i; giving characters back never helps, as the
\* next character would then be in C and not SUF.  re.search returns the
\* match with the leftmost start.
RECURSIVE RunEnd(_, _, _)
RunEnd(s, i, cls) ==
    IF i < Len(s) /\ s[i + 1] \in cls THEN RunEnd(s, i + 1, cls) ELSE i

MatchAt(s, i, cls) ==
    /\ s[i] \in cls
    /\ LET e == RunEnd(s, i, cls) IN e < Len(s) /\ s[e + 1] = SUF

\* None, or Some(group 1) of the leftmost match.
re_search(s, cls) ==
    LET hits == {i \in 1..Len(s) : MatchAt(s, i, cls)}
    IN  IF hits = {} THEN None
        ELSE LET i == Min(hits) IN Some(SubSeq(s, i, RunEnd(s, i, cls)))

\* ------------------------------------------------------------------ int
RECURSIVE DecimalValue(_)
DecimalValue(tok) ==
    IF tok = <<>> THEN 0
    ELSE 10 * DecimalValue(SubSeq(tok, 1, Len(tok) - 1)) + DigitValue(tok[Len(tok)])

\* int(group): ValueError past the conversion limit, else the decimal value.
py_int(tok) ==
    IF CharCount(tok) > IntMaxStrDigits THEN Raised ELSE Ret(DecimalValue(tok))

\* --------------------------------------------------------- kanji2number
\* kanjize.kanji2number is a third-party function whose source is not part
\* of the repository.  On a well-formed numeral (an optional digit before
\* hyaku, an optional digit before ju, an optional final digit, places
\* descending) it returns the value.  What it does on an ill-formed token of
\* the same characters (two digits in a row, a repeated or ascending place)
\* depends on the installed build: kanjiStrict says whether it raises or
\* sums the groups leniently.
RECURSIVE KanjiSum(_, _)
KanjiSum(tok, pending) ==
    IF tok = <<>> THEN pending
    ELSE IF Head(tok) \in KanjiDigits
         THEN pending + KanjiSum(Tail(tok), KanjiValue(Head(tok)))
         ELSE (IF pending = 0 THEN 1 ELSE pending) * KanjiValue(Head(tok))
              + KanjiSum(Tail(tok), 0)

WellFormedKanji(tok) ==
    /\ tok # <<>>
    /\ \A i \in 1..Len(tok) - 1 : ~(tok[i] \in KanjiDigits /\ tok[i + 1] \in KanjiDigits)
    /\ \A i, j \in 1..Len(tok) :
          (i < j /\ tok[i] \in KanjiPlaces /\ tok[j] \in KanjiPlaces)
              => KanjiValue(tok[i]) > KanjiValue(tok[j])

kanji2number(tok) ==
    IF WellFormedKanji(tok) \/ ~kanjiStrict THEN Ret(KanjiSum(tok, 0)) ELSE Raised

\* ------------------------------------------------------ is_kara_pattern
\* "not title" is true of None and of the empty string.
is_kara_pattern_nokanji(t) ==
    IF t = None \/ t[1] = <<>> THEN FALSE
    ELSE re_search(t[1], Digits) # None

is_kara_pattern(t) ==
    IF t = None \/ t[1] = <<>> THEN FALSE
    ELSE IF re_search(t[1], Digits) # None THEN TRUE
    ELSE IF re_search(t[1], KanjiChars) # None THEN TRUE
    ELSE FALSE

\* ---------------------------------------------------------- extract_age
\* An exception inside the try block is swallowed and None is returned.
extract_age(t) ==
    IF t = None \/ t[1] = <<>> THEN None
    ELSE LET match == re_search(t[1], Digits)
             match_kanji == re_search(t[1], KanjiChars)
         IN  IF match # None
             THEN (LET r == py_int(match[1]) IN IF r.ok THEN Some(r.v) ELSE None)
             ELSE IF match_kanji # None
             THEN (LET r == kanji2number(match_kanji[1]) IN IF r.ok THEN Some(r.v) ELSE None)
             ELSE None

\* ------------------------------------------------------- extract_decade
DateDigits == {"1", "9", "0"}
DateAlphabet == DateDigits \cup {"-", "a"}
DateDigitValue(c) == CASE c = "1" -> 1 [] c = "9" -> 9 [] OTHER -> 0

RECURSIVE DateValue(_)
DateValue(tok) ==
    IF tok = <<>> THEN 0
    ELSE 10 * DateValue(SubSeq(tok, 1, Len(tok) - 1)) + DateDigitValue(tok[Len(tok)])

\* str(n) for n >= 0: the decimal digits, no leading zero.
DigitChar(d) == CASE d = 0 -> "0" [] d = 1 -> "1" [] d = 2 -> "2" [] d = 3 -> "3"
                  [] d = 4 -> "4" [] d = 5 -> "5" [] d = 6 -> "6" [] d = 7 -> "7"
                  [] d = 8 -> "8" [] OTHER -> "9"

RECURSIVE py_str(_)
py_str(n) == IF n < 10 THEN <<DigitChar(n)>> ELSE py_str(n \div 10) \o <<DigitChar(n % 10)>>

NENDAI == "NENDAI"

\* re.search(r'(\d{4})', s): scan from the left for four digits in a row.
RECURSIVE year_search(_, _)
year_search(s, i) ==
    IF i + 3 > Len(s) THEN None
    ELSE IF \A k \in i..i + 3 : s[k] \in DateDigits THEN Some(SubSeq(s, i, i + 3))
    ELSE year_search(s, i + 1)

decade_of_year_century(year) == (year \div 100) * 100

decade_of_year(year) == (year \div 10) * 10

extract_decade(d) ==
    IF d = None \/ d[1] = <<>> THEN None
    ELSE LET year_match == year_search(d[1], 1)
         IN  IF year_match # None
             THEN Some(py_str(decade_of_year(DateValue(year_match[1]))) \o <<NENDAI>>)
             ELSE None

\* ------------------------------------------- the parts a run does not use
NoRun == [kind |-> "none", produced |-> FALSE, agg_arg |-> None, stats |-> None,
          calls |-> 0, error |-> None, displayed |-> None]
EmptySession == [generated_article |-> None, writing_style |-> None]

IdleExtract == kanjiStrict = FALSE /\ title = None /\ matched = None /\ age = None
IdleDecade == publish_date = None /\ decade = None
IdleAgg == df_with_age = <<>> /\ stats = None
IdleGen ==
    /\ writing_style = "standard"
    /\ user_insights = <<>>
    /\ api_key = TRUE
    /\ gemini = [ok |-> TRUE, text |-> <<>>]
    /\ generated = None
IdleApp == has_title = TRUE /\ rows = <<>> /\ session_state = EmptySession /\ last = NoRun

\* =========================================================== extractor
Titles == {None} \cup {Some(s) : s \in SeqsUpTo(TitleAlphabet, MaxTitleLen)}

InitExtract ==
    /\ kanjiStrict \in BOOLEAN
    /\ title \in Titles
    /\ matched = None
    /\ age = None
    /\ IdleDecade /\ IdleAgg /\ IdleGen /\ IdleApp

CallIsKaraPattern ==
    /\ matched = None
    /\ matched' = Some(is_kara_pattern(title))
    /\ UNCHANGED <<kanjiStrict, title, age, decadeVars, aggVars, genVars, appVars>>

CallExtractAge ==
    /\ age = None
    /\ age' = Some(extract_age(title))
    /\ UNCHANGED <<kanjiStrict, title, matched, decadeVars, aggVars, genVars, appVars>>

NextExtract == CallIsKaraPattern \/ CallExtractAge

SpecExtract == InitExtract /\ [][NextExtract]_vars

\* ============================================================== decade
Dates == {None} \cup {Some(s) : s \in SeqsUpTo(DateAlphabet, MaxDateLen)}

InitDecade ==
    /\ publish_date \in Dates
    /\ decade = None
    /\ IdleExtract /\ IdleAgg /\ IdleGen /\ IdleApp

CallExtractDecade ==
    /\ decade = None
    /\ decade' = Some(extract_decade(publish_date))
    /\ UNCHANGED <<extractVars, publish_date, aggVars, genVars, appVars>>

NextDecade == CallExtractDecade

SpecDecade == InitDecade /\ [][NextDecade]_vars


\* ================================================== aggregate_statistics
\* The frame is modelled by its column taishou-nenrei: one optional age per
\* row (None is pandas' NaN).  The frame the button handler passes has no
\* nendai column (line 410 copies df; line 332 adds the column to another
\* copy), so the nendai branch of lines 102-106 is not taken.
RECURSIVE SumSeq(_)
SumSeq(s) == IF s = <<>> THEN 0 ELSE Head(s) + SumSeq(Tail(s))

\* dropna(): the ages that are present, in row order.
RECURSIVE dropna(_)
dropna(df) ==
    IF df = <<>> THEN <<>>
    ELSE IF Head(df) = None THEN dropna(Tail(df))
    ELSE <<Head(df)[1]>> \o dropna(Tail(df))

\* A number that is a float in Python is the pair <<numerator, denominator>>;
\* <<0, 0>> is NaN (the mean of no values).
mean_age_unguarded(valid_ages) == <<SumSeq(valid_ages), Len(valid_ages)>>

mean_age(valid_ages) ==
    IF Len(valid_ages) > 0 THEN <<SumSeq(valid_ages), Len(valid_ages)>> ELSE <<0, 1>>

SeqRange(s) == {s[i] : i \in DOMAIN s}

min_age(valid_ages) == IF Len(valid_ages) > 0 THEN Min(SeqRange(valid_ages)) ELSE 0

max_age(valid_ages) == IF Len(valid_ages) > 0 THEN Max(SeqRange(valid_ages)) ELSE 0

\* The k-th smallest value (k from 1), counting repetitions.
KthSmallest(s, k) ==
    CHOOSE v \in SeqRange(s) :
        /\ Cardinality({i \in DOMAIN s : s[i] < v}) < k
        /\ Cardinality({i \in DOMAIN s : s[i] <= v}) >= k

median_age(valid_ages) ==
    LET n == Len(valid_ages)
    IN  IF n = 0 THEN <<0, 1>>
        ELSE IF n % 2 = 1 THEN <<KthSmallest(valid_ages, (n + 1) \div 2), 1>>
        ELSE <<KthSmallest(valid_ages, n \div 2) + KthSmallest(valid_ages, n \div 2 + 1), 2>>

\* value_counts(): one <<age, count>> pair per distinct age that is present.
value_counts(df) ==
    LET valid == dropna(df)
    IN  {<<a, Cardinality({i \in DOMAIN valid : valid[i] = a})>> : a \in SeqRange(valid)}

\* sort_values(ascending=False) with pandas' default kind="quicksort", which
\* is not a stable sort: the result is ordered by count, descending, and the
\* order among equal counts is whatever the numpy build produces.  The set of
\* every order the sort may return.
RECURSIVE sort_values_desc(_)
sort_values_desc(counts) ==
    IF counts = {} THEN {<<>>}
    ELSE LET m == Max({p[2] : p \in counts})
             top == {p \in counts : p[2] = m}
         IN  UNION {{<<p>> \o rest : rest \in sort_values_desc(counts \ {p})} : p \in top}

TopN == 10

head(s, n) == SubSeq(s, 1, IF Len(s) < n THEN Len(s) ELSE n)

\* len(df[(age >= lo) & (age < hi)]); a comparison with NaN is False.
Band(df, lo, hi) ==
    Cardinality({i \in DOMAIN df : df[i] # None /\ df[i][1] >= lo /\ df[i][1] < hi})

BandFrom(df, lo) == Cardinality({i \in DOMAIN df : df[i] # None /\ df[i][1] >= lo})

BandOver(df, lo) == Cardinality({i \in DOMAIN df : df[i] # None /\ df[i][1] > lo})

age_groups_open_top(df) ==
    << Band(df, 0, 10), Band(df, 10, 20), Band(df, 20, 30), Band(df, 30, 40),
       Band(df, 40, 50), Band(df, 50, 60), Band(df, 60, 70), Band(df, 70, 80),
       Band(df, 80, 90), BandOver(df, 90) >>

\* The ten entries of the dict age_groups, in the order they are written.
age_groups(df) ==
    << Band(df, 0, 10), Band(df, 10, 20), Band(df, 20, 30), Band(df, 30, 40),
       Band(df, 40, 50), Band(df, 50, 60), Band(df, 60, 70), Band(df, 70, 80),
       Band(df, 80, 90), BandFrom(df, 90) >>

\* The dict stats; a key that is not set is None.  age_counts is the order
\* the sort of line 91 returned.
aggregate_statistics(df, age_counts) ==
    LET valid_ages == dropna(df)
    IN  [ total      |-> Len(df),
          mean       |-> mean_age(valid_ages),
          min        |-> min_age(valid_ages),
          max        |-> max_age(valid_ages),
          median     |-> median_age(valid_ages),
          top_ages   |-> head(age_counts, TopN),
          peak_age   |-> IF Len(age_counts) > 0 THEN Some(age_counts[1][1]) ELSE None,
          peak_count |-> IF Len(age_counts) > 0 THEN Some(age_counts[1][2]) ELSE None,
          age_groups |-> age_groups(df) ]

AgeSet == {0, 9, 10, 13, 89, 90}

\* A frame with one more distinct age than the top list holds: ages 1 to
\* TopN + 1, age k in WideCount(k) rows, so that the last two ages tie.
WideCount(k) == (TopN + 1 - k) \div 2 + 1

RECURSIVE WideRows(_, _)
WideRows(pass, k) ==
    IF pass > WideCount(1) THEN <<>>
    ELSE IF k > TopN + 1 THEN WideRows(pass + 1, 1)
    ELSE (IF WideCount(k) >= pass THEN <<Some(k)>> ELSE <<>>) \o WideRows(pass, k + 1)

WideFrame == WideRows(1, 1)

Frames == SeqsUpTo({None} \cup {Some(a) : a \in AgeSet}, MaxBatchLen) \cup {WideFrame}

InitAgg ==
    /\ df_with_age \in Frames
    /\ stats = None
    /\ IdleExtract /\ IdleDecade /\ IdleGen /\ IdleApp

CallAggregate ==
    /\ stats = None
    /\ \E age_counts \in sort_values_desc(value_counts(df_with_age)) :
          stats' = Some(aggregate_statistics(df_with_age, age_counts))
    /\ UNCHANGED <<extractVars, decadeVars, df_with_age, genVars, appVars>>

NextAgg == CallAggregate

SpecAgg == InitAgg /\ [][NextAgg]_vars


\* ======================================== generate_article_with_gemini
Styles == {"standard", "critical", "poetic", "academic", "friendly"}

\* The dict style_instructions: one clause per style.
style_instructions ==
    [ standard |-> "CLAUSE_standard", critical |-> "CLAUSE_critical",
      poetic   |-> "CLAUSE_poetic",   academic |-> "CLAUSE_academic",
      friendly |-> "CLAUSE_friendly" ]

\* style_instructions.get(writing_style, style_instructions["standard"])
style_instruction(ws) ==
    IF ws \in DOMAIN style_instructions THEN style_instructions[ws]
    ELSE style_instructions["standard"]

Whitespace == {" "}

RECURSIVE lstrip(_)
lstrip(s) == IF s # <<>> /\ Head(s) \in Whitespace THEN lstrip(Tail(s)) ELSE s

RECURSIVE rstrip(_)
rstrip(s) ==
    IF s # <<>> /\ s[Len(s)] \in Whitespace THEN rstrip(SubSeq(s, 1, Len(s) - 1)) ELSE s

strip(s) == rstrip(lstrip(s))

NOTES_HEADER == "NOTES_HEADER"
NOTES_FOOTER == "NOTES_FOOTER"

\* "if user_insights:" without the strip.
has_insights_nostrip(ui) == ui # <<>>

\* user_insights and user_insights.strip()
has_insights(ui) == ui # <<>> /\ strip(ui) # <<>>

user_insights_section(ui) ==
    IF has_insights(ui) THEN <<NOTES_HEADER>> \o ui \o <<NOTES_FOOTER>> ELSE <<>>

\* The prompt, as a sequence of symbols.  STATISTICS stands for the heading
\* and the statistics lines (188-206), OUTLINE for the fixed outline and the
\* closing instructions (208-220); neither contains the notes heading or a
\* style clause.  The notes are spliced in character by character.
build_prompt(st, ws, ui) ==
    <<"STATISTICS">> \o user_insights_section(ui) \o <<"OUTLINE", style_instruction(ws)>>

NO_KEY_MESSAGE == "NO_KEY_MESSAGE"
ERROR_PREFIX == "ERROR_PREFIX"

\* f"<prefix>{str(e)}" of the except clause.
error_text_bare(message) == message

error_text(message) == <<ERROR_PREFIX>> \o message

\* resp is what generate_content / response.text does: Ret(text) or a raised
\* exception whose str() is resp.text.  calls counts generate_content calls.
generate_article_with_gemini(st, ws, ui, key, resp) ==
    IF ~key
    THEN [article |-> None, error |-> Some(<<NO_KEY_MESSAGE>>), prompt |-> None, calls |-> 0]
    ELSE LET prompt == build_prompt(st, ws, ui)
         IN  IF resp.ok
             THEN [article |-> Some(resp.text), error |-> None,
                   prompt |-> Some(prompt), calls |-> 1]
             ELSE [article |-> None, error |-> Some(error_text(resp.text)),
                   prompt |-> Some(prompt), calls |-> 1]

Notes == SeqsUpTo({" ", "a"}, MaxNotesLen)
Articles == {<<>>, <<"A">>, <<"B">>}
Messages == {<<>>, <<"q">>, <<"t", "o">>}
Responses == {[ok |-> TRUE, text |-> a] : a \in Articles}
             \cup {[ok |-> FALSE, text |-> m] : m \in Messages}

SomeStats == aggregate_statistics(<<Some(13)>>, <<<<13, 1>>>>)

InitGen ==
    /\ writing_style \in Styles \cup {"unknown"}
    /\ user_insights \in Notes
    /\ api_key \in BOOLEAN
    /\ gemini \in Responses
    /\ generated = None
    /\ IdleExtract /\ IdleDecade /\ IdleAgg /\ IdleApp

CallGenerate ==
    /\ generated = None
    /\ generated' = Some(generate_article_with_gemini(SomeStats, writing_style,
                                                      user_insights, api_key, gemini))
    /\ UNCHANGED <<extractVars, decadeVars, aggVars, appVars,
                   writing_style, user_insights, api_key, gemini>>

NextGen == CallGenerate

SpecGen == InitGen /\ [][NextGen]_vars

\* ====================================================== the script (main)
\* The frame load_data returns: one row per title, pandas' index from 0.
RECURSIVE RawFrame(_, _)
RawFrame(titles, i) ==
    IF titles = <<>> THEN <<>>
    ELSE <<[index |-> i, title |-> Head(titles)]>> \o RawFrame(Tail(titles), i + 1)

\* df = df[df[COL_TITLE].apply(is_kara_pattern)].copy()
filter_kara(frame) ==
    LET keep(r) == is_kara_pattern(r.title) IN SelectSeq(frame, keep)

\* df["taishou-nenrei"] = df[COL_TITLE].apply(extract_age)
add_age(frame) ==
    [i \in DOMAIN frame |->
        [index |-> frame[i].index, title |-> frame[i].title, age |-> extract_age(frame[i].title)]]

\* Lines 273-277; without the title column the frame gets no age column.
main_frame(titled, titles) ==
    IF titled
    THEN [has_age |-> TRUE, rows |-> add_age(filter_kara(RawFrame(titles, 0)))]
    ELSE [has_age |-> FALSE, rows |-> <<>>]

notna_all(frame) == frame

\* df[df["taishou-nenrei"].notna()].copy()
notna(frame) ==
    LET keep(r) == r.age # None IN SelectSeq(frame, keep)

AgeColumn(frame) == [i \in DOMAIN frame |-> frame[i].age]

\* Python truth of an optional string: None and "" are false.
Truthy(opt) == opt # None /\ opt[1] # <<>>

session_after_generate_eager(session, article, error, ws) ==
    IF Truthy(article)
    THEN [generated_article |-> article, writing_style |-> Some(ws)]
    ELSE [generated_article |-> session.generated_article, writing_style |-> Some(ws)]

\* Lines 419-428: the session is written only in the branch "elif article".
session_after_generate(session, article, error, ws) ==
    IF Truthy(error) THEN session
    ELSE IF Truthy(article)
    THEN [generated_article |-> article, writing_style |-> Some(ws)]
    ELSE session

clear_article_only(session) ==
    [generated_article |-> None, writing_style |-> session.writing_style]

\* Lines 446-448.
clear_session(session) == [generated_article |-> None, writing_style |-> None]

\* Lines 437-441: the caption and the article the display section renders.
Display(titles, session) ==
    IF titles # <<>> /\ session.generated_article # None
    THEN Some([caption |-> session.writing_style, article |-> session.generated_article[1]])
    ELSE None

T13 == <<"1", "F3", SUF, "x">>
TBadKanji == <<"K3", "K3", SUF>>
TLongDigits == <<LONG1, SUF>>
TPlain == <<"x">>
RowTitles == {Some(T13), Some(TBadKanji), Some(TLongDigits), Some(TPlain)}
Sheets == SeqsUpTo(RowTitles, MaxRows)

InitApp ==
    /\ kanjiStrict \in BOOLEAN
    /\ title = None /\ matched = None /\ age = None
    /\ has_title \in BOOLEAN
    /\ rows \in Sheets
    /\ session_state = EmptySession
    /\ last = NoRun
    /\ IdleDecade /\ IdleAgg /\ IdleGen

\* A press of the button "generate" (lines 408-432), with the widgets' values
\* and what the Gemini call will do.  After a success st.rerun() runs the
\* script again, which displays the new article.
GenerateButton(ws, ui, key, resp) ==
    /\ rows # <<>>
    /\ LET df == main_frame(has_title, rows)
           batch == notna(df.rows)
       IN  IF df.has_age /\ Len(batch) > 0
           THEN \E age_counts \in sort_values_desc(value_counts(AgeColumn(batch))) :
                  LET st == aggregate_statistics(AgeColumn(batch), age_counts)
                      g == generate_article_with_gemini(st, ws, ui, key, resp)
                      new == session_after_generate(session_state, g.article, g.error, ws)
                  IN  /\ session_state' = new
                      /\ last' = [kind |-> "generate",
                                  produced |-> ~Truthy(g.error) /\ Truthy(g.article),
                                  agg_arg |-> Some(batch), stats |-> Some(st),
                                  calls |-> g.calls,
                                  error |-> IF Truthy(g.error) THEN g.error ELSE None,
                                  displayed |-> Display(rows, new)]
           ELSE /\ session_state' = session_state
                /\ last' = [kind |-> "generate", produced |-> FALSE, agg_arg |-> None,
                            stats |-> None, calls |-> 0, error |-> None,
                            displayed |-> Display(rows, session_state)]
    /\ UNCHANGED <<extractVars, decadeVars, aggVars, genVars, has_title, rows>>

\* A press of the button "clear" (lines 445-449), which exists only while an
\* article is stored; st.rerun() then runs the script again.
ClearButton ==
    /\ rows # <<>>
    /\ session_state.generated_article # None
    /\ session_state' = clear_session(session_state)
    /\ last' = [kind |-> "clear", produced |-> FALSE, agg_arg |-> None, stats |-> None,
                calls |-> 0, error |-> None, displayed |-> Display(rows, session_state')]
    /\ UNCHANGED <<extractVars, decadeVars, aggVars, genVars, has_title, rows>>

\* The cached sheet expires (ttl=600) and load_data returns other rows; the
\* run that sees them presses no button.
Reload ==
    /\ rows' \in Sheets
    /\ last' = [kind |-> "view", produced |-> FALSE, agg_arg |-> None, stats |-> None,
                calls |-> 0, error |-> None, displayed |-> Display(rows', session_state)]
    /\ UNCHANGED <<extractVars, decadeVars, aggVars, genVars, has_title, session_state>>

\* The values the widgets and the environment take in the runs of the script.
AppStyles == {"standard", "poetic"}
AppNotes == {<<>>, <<"a">>}
AppEnvironments ==
    {[key |-> FALSE, resp |-> [ok |-> TRUE, text |-> <<"A">>]]}
    \cup {[key |-> TRUE, resp |-> [ok |-> TRUE, text |-> a]] : a \in Articles}
    \cup {[key |-> TRUE, resp |-> [ok |-> FALSE, text |-> <<"q">>]]}

NextApp ==
    \/ \E ws \in AppStyles, ui \in AppNotes, env \in AppEnvironments :
          GenerateButton(ws, ui, env.key, env.resp)
    \/ ClearButton
    \/ Reload

SpecApp == InitApp /\ [][NextApp]_vars


\* ================================================================ claims

\* ---- C1 ----------------------------------------------------------------
\* The title contains an age token (digits, or kanji numeral characters)
\* directly followed by the suffix.
HasToken(s, cls) == \E i \in 1..Len(s) - 1 : s[i] \in cls /\ s[i + 1] = SUF

\* The token of the first occurrence: it ends at the first place where a
\* character of the class is followed by the suffix, and reaches back over
\* the whole run of the class.
FirstToken(s, cls) ==
    LET e == Min({k \in 1..Len(s) - 1 : s[k] \in cls /\ s[k + 1] = SUF})
        b == Min({i \in 1..e : \A k \in i..e : s[k] \in cls})
    IN  SubSeq(s, b, e)

\* Parsing the token that extract_age looks at raises.
TokenFailsToParse(t) ==
    /\ t # None
    /\ \/ /\ HasToken(t[1], Digits)
          /\ CharCount(FirstToken(t[1], Digits)) > IntMaxStrDigits
       \/ /\ ~HasToken(t[1], Digits)
          /\ HasToken(t[1], KanjiChars)
          /\ kanjiStrict
          /\ ~WellFormedKanji(FirstToken(t[1], KanjiChars))

\* C1 as stated: for every title, is_kara_pattern(title) is true if and only
\* if extract_age(title) is not None.
C1_MatchIffAge ==
    (matched # None /\ age # None) => (matched[1] <=> (age[1] # None))

\* C1 amended: is_kara_pattern(title) is true exactly when the title holds an
\* age token followed by the suffix; a non-absent extract_age implies a true
\* is_kara_pattern; and is_kara_pattern is true with extract_age None exactly
\* when parsing the first matched token raises (the exception is swallowed).
C1_MatchIffAgeOrParseFailure ==
    (matched # None /\ age # None) =>
        /\ matched[1] <=> (title # None /\ (HasToken(title[1], Digits)
                                            \/ HasToken(title[1], KanjiChars)))
        /\ (age[1] # None) => matched[1]
        /\ (matched[1] /\ age[1] = None) <=> TokenFailsToParse(title)

\* A title that matches the pattern and has no age.
C1_Witness == matched = Some(TRUE) /\ age = Some(None)

\* ---- C6 ----------------------------------------------------------------
FourDigitsAt(s, i) == i + 3 <= Len(s) /\ \A k \in i..i + 3 : s[k] \in DateDigits

\* C6: extract_decade returns the label of (year // 10) * 10 for the year
\* written by the first four consecutive digits of the text (also inside a
\* longer run of digits), and None when the text is absent or has no four
\* digits in a row.
C6_DecadeOfFirstFourDigits ==
    decade # None =>
        IF publish_date = None \/ ~\E i \in 1..Len(publish_date[1]) : FourDigitsAt(publish_date[1], i)
        THEN decade[1] = None
        ELSE LET s == publish_date[1]
                 i == Min({k \in 1..Len(s) : FourDigitsAt(s, k)})
                 year == 1000 * DateDigitValue(s[i]) + 100 * DateDigitValue(s[i + 1])
                         + 10 * DateDigitValue(s[i + 2]) + DateDigitValue(s[i + 3])
                 label == decade[1][1]
             IN  /\ decade[1] # None
                 /\ label[Len(label)] = NENDAI
                 /\ LET digits == SubSeq(label, 1, Len(label) - 1)
                    IN  /\ digits # <<>>
                        /\ Len(digits) > 1 => digits[1] # "0"
                        /\ DateValue(digits) = year - (year % 10)

\* "19999" gives the label of 1990.
C6_Witness ==
    /\ publish_date = Some(<<"1", "9", "9", "9", "9">>)
    /\ decade = Some(Some(<<"1", "9", "9", "0", NENDAI>>))

\* ---- C2 ----------------------------------------------------------------
AllAgesPresent(df) == \A i \in DOMAIN df : df[i] # None

\* The band an age belongs to: 1 for 0-9, ..., 9 for 80-89, 10 for 90 and above.
BandOf(a) == IF a >= 90 THEN 10 ELSE a \div 10 + 1

EachRowInItsBand(df, groups) ==
    \A k \in DOMAIN groups :
        groups[k] = Cardinality({i \in DOMAIN df : BandOf(df[i][1]) = k})

\* C2 as stated: eleven band counts, each record in exactly one band, the
\* counts summing to the total.
C2_ElevenBandsPartition ==
    (stats # None /\ AllAgesPresent(df_with_age)) =>
        /\ Len(stats[1].age_groups) = 11
        /\ EachRowInItsBand(df_with_age, stats[1].age_groups)
        /\ SumSeq(stats[1].age_groups) = stats[1].total

\* C2 amended: the band counts are ten (0-9 through 80-89 are nine bands,
\* plus 90 and above); each record is counted in exactly one of them and the
\* counts sum to the total.
C2_TenBandsPartition ==
    (stats # None /\ AllAgesPresent(df_with_age)) =>
        /\ Len(stats[1].age_groups) = 10
        /\ EachRowInItsBand(df_with_age, stats[1].age_groups)
        /\ SumSeq(stats[1].age_groups) = stats[1].total

C2_Witness ==
    /\ stats # None
    /\ df_with_age = <<Some(9), Some(10), Some(90), Some(89)>>

\* ---- C3 ----------------------------------------------------------------
FirstSeen(df, a) == Min({i \in DOMAIN df : df[i] = Some(a)})

\* C3: top_ages holds at most 10 pairs, by count descending, and ages with
\* equal counts appear in the order in which they are first met in the batch.
C3_TopAgesStable ==
    stats # None =>
        LET top == stats[1].top_ages
        IN  /\ Len(top) <= 10
            /\ \A i, j \in DOMAIN top :
                  i < j => /\ top[i][2] >= top[j][2]
                           /\ top[i][2] = top[j][2] =>
                                 FirstSeen(df_with_age, top[i][1]) < FirstSeen(df_with_age, top[j][1])

\* ---- C4 ----------------------------------------------------------------
ZeroSummary(bands) ==
    [ total |-> 0, mean |-> <<0, 1>>, min |-> 0, max |-> 0, median |-> <<0, 1>>,
      top_ages |-> <<>>, peak_age |-> None, peak_count |-> None,
      age_groups |-> [k \in 1..bands |-> 0] ]

\* C4 as stated: for the empty batch the summary is all zero, the peak fields
\* absent, with eleven band counts of 0.
C4_EmptyBatchElevenBands ==
    (stats # None /\ df_with_age = <<>>) => stats[1] = ZeroSummary(11)

\* C4 amended: the same with the ten band counts the code has.
C4_EmptyBatchZeroSummary ==
    (stats # None /\ df_with_age = <<>>) => stats[1] = ZeroSummary(10)

C4_Witness == stats # None /\ df_with_age = <<>>

\* ---- C5 ----------------------------------------------------------------
\* C5: the batch given to aggregate_statistics is exactly the rows whose
\* title matches the pattern and yields an age, in their original order, each
\* with its age; no row without an age is counted in the total.
C5_BatchIsMatchingRowsWithAge ==
    last.agg_arg # None =>
        LET b == last.agg_arg[1]
        IN  /\ \A i, j \in DOMAIN b : i < j => b[i].index < b[j].index
            /\ {b[i].index : i \in DOMAIN b}
                 = {k \in 0..Len(rows) - 1 :
                       is_kara_pattern(rows[k + 1]) /\ extract_age(rows[k + 1]) # None}
            /\ \A i \in DOMAIN b :
                  /\ b[i].title = rows[b[i].index + 1]
                  /\ b[i].age = extract_age(b[i].title)
                  /\ b[i].age # None
            /\ last.stats[1].total = Len(b)

\* A sheet with a row that matches the pattern and has no age, aggregated.
C5_Witness ==
    /\ last.agg_arg # None
    /\ \E k \in DOMAIN rows : is_kara_pattern(rows[k]) /\ extract_age(rows[k]) = None

\* ---- C7 ----------------------------------------------------------------
GenerationFailed == generated # None /\ api_key /\ ~gemini.ok

\* C7 as stated: the error string returned equals the collaborator's message,
\* and generate_content is called at most once.
C7_ErrorIsMessage ==
    GenerationFailed =>
        /\ generated[1].error = Some(gemini.text)
        /\ generated[1].calls <= 1

\* C7 amended: the error string returned is the fixed prefix followed by the
\* collaborator's message, verbatim; no article is returned; generate_content
\* is called once.
C7_ErrorIsPrefixedMessage ==
    GenerationFailed =>
        /\ generated[1].error = Some(<<ERROR_PREFIX>> \o gemini.text)
        /\ generated[1].article = None
        /\ generated[1].calls = 1

C7_Witness == GenerationFailed /\ gemini.text = <<"t", "o">>

\* ---- C8 ----------------------------------------------------------------
IndexOf(s, x) == Min({i \in DOMAIN s : s[i] = x})

\* C8: the notes block is in the prompt iff the notes hold a character that
\* is not whitespace; it then quotes the notes verbatim and comes before the
\* style clause; the style clause is the one of the style, or the standard
\* one for a style that is not one of the five.
C8_NotesBlockAndStyleClause ==
    (generated # None /\ generated[1].prompt # None) =>
        LET prompt == generated[1].prompt[1]
            n == Len(user_insights)
            clause == IF writing_style \in Styles
                      THEN style_instructions[writing_style]
                      ELSE "CLAUSE_standard"
        IN  /\ (\E i \in DOMAIN prompt : prompt[i] = NOTES_HEADER)
                  <=> (\E i \in DOMAIN user_insights : user_insights[i] # " ")
            /\ (\E i \in DOMAIN prompt : prompt[i] = NOTES_HEADER) =>
                  LET h == IndexOf(prompt, NOTES_HEADER)
                  IN  /\ SubSeq(prompt, h + 1, h + n) = user_insights
                      /\ prompt[h + n + 1] = NOTES_FOOTER
                      /\ h + n + 1 < IndexOf(prompt, clause)
            /\ prompt[Len(prompt)] = clause
            /\ Cardinality({i \in DOMAIN prompt :
                              prompt[i] \in {style_instructions[k] : k \in Styles}}) = 1

C8_Witness ==
    /\ generated # None
    /\ generated[1].prompt # None
    /\ user_insights = <<" ", "a", " ">>
    /\ writing_style = "unknown"

\* ---- C9 ----------------------------------------------------------------
\* C9: the session holds a writing_style only if it holds a generated_article.
C9_StyleOnlyWithArticle ==
    session_state.writing_style # None => session_state.generated_article # None

\* An article was stored and then cleared.
C9_Witness == last.kind = "clear" /\ session_state = EmptySession

\* ---- C10 ---------------------------------------------------------------
\* C10: a press of "generate" that produces no article leaves the session as
\* it was, and the article stored before is the one displayed.
C10_FailedGenerateKeepsSession ==
    [][(last'.kind = "generate" /\ ~last'.produced) =>
          /\ session_state' = session_state
          /\ last'.displayed = Display(rows, session_state)]_vars

\* A failed generation while an article is stored and displayed.
C10_Witness ==
    /\ last.kind = "generate"
    /\ ~last.produced
    /\ last.error # None
    /\ session_state.generated_article # None
    /\ last.displayed # None

=============================================================================
